---- MODULE Spec2Model ----
(***************************************************************************)
(* Model of the CV Builder API server (src/server.js): the in-memory       *)
(* conversation store, retryWithExponentialBackoff and the                 *)
(* /api/generate-cv handler.                                               *)
(*                                                                         *)
(* JavaScript runs each handler to its next await without interruption,    *)
(* so one action is one such synchronous segment of one handler.           *)
(*                                                                         *)
(* Strings are sequences of tokens (a token is a piece of text that the    *)
(* code never looks inside).  undefined and the empty string are both      *)
(* falsy and the code only tests these fields for truthiness, so both are  *)
(* the empty sequence.                                                     *)
(***************************************************************************)
EXTENDS Integers, Sequences, FiniteSets, TLC

VARIABLES
    conversations,  \* the store: threadID -> array of turn strings (line 50)
    appended,       \* history: every turn pushed to a thread since it was last reset
    now,            \* the last value Date.now() returned
    nreq,           \* number of requests received so far (the serial of the last one)
    budget,         \* number of requests the environment may still send
    pc,             \* per handler instance: the await it is suspended at, or "idle"
    req,            \* per handler instance: the request body
    local,          \* per handler instance: the handler's local variables
    retry,          \* per handler instance: the retryWithExponentialBackoff call
    out,            \* the response the last step sent, NoOut if it sent none
    mix,            \* the request fields this behaviour's clients vary
    trace           \* outcomes of the operation a directly called retry ran

vars ==
    <<conversations, appended, now, nreq, budget, pc, req, local, retry, out,
      mix, trace>>

(***************************** bounds **************************************)
MaxRequests == 2        \* requests the clients send in one behaviour
MaxRetriesBound == 3    \* maxRetries arguments tried on the retry function

\* the handler instance of the k-th request of a behaviour is instance k
Slots == 1..MaxRequests

(************************* program constants *******************************)
Cap == 20                   \* line 234: while (length > 20) shift()
DefaultMaxRetries == 2      \* line 102: maxRetries = 2
DefaultInitialDelay == 500  \* line 102: initialDelay = 500

DEFAULT_SYSTEM_PROMPT == <<"You are a professional CV assistant">>

(***************************** strings *************************************)
Truthy(s) == s # <<>>

Includes(s, tok) == \E i \in 1..Len(s) : s[i] = tok

RECURSIVE Join(_, _)
\* Array.prototype.join: the elements separated by sep, "" for the empty array
Join(arr, sep) ==
    IF arr = <<>> THEN <<>>
    ELSE IF Len(arr) = 1 THEN arr[1]
    ELSE arr[1] \o <<sep>> \o Join(Tail(arr), sep)

IndexOf(s, tok) ==
    IF Includes(s, tok) THEN CHOOSE i \in 1..Len(s) :
                                 s[i] = tok /\ \A j \in 1..(i - 1) : s[j] # tok
    ELSE 0

\* String.prototype.replace with a string pattern: the first occurrence only
Replace(s, pattern, replacement) ==
    LET i == IndexOf(s, pattern) IN
    IF i = 0 THEN s
    ELSE SubSeq(s, 1, i - 1) \o replacement \o SubSeq(s, i + 1, Len(s))

(********************* retryWithExponentialBackoff *************************)
\* A delay is the exact rational <<numerator, denominator>> in milliseconds.
RECURSIVE Pow(_, _)
Pow(b, e) == IF e = 0 THEN 1 ELSE b * Pow(b, e - 1)

DelayBase2(initialDelay, retries) == <<initialDelay * Pow(2, retries), 1>>

\* line 114: initialDelay * Math.pow(1.5, retries)
Delay(initialDelay, retries) ==
    <<initialDelay * Pow(3, retries), Pow(2, retries)>>

ShouldRetryAlways(message) == TRUE

\* line 110: message?.includes('503') || message?.includes('overloaded')
ShouldRetry(message) ==
    Includes(message, "503") \/ Includes(message, "overloaded")

RetriesExhaustedLate(c) == c.retries > c.maxRetries

\* line 108: retries >= maxRetries
RetriesExhausted(c) == c.retries >= c.maxRetries

NoCall ==
    [st |-> "none", maxRetries |-> 0, initialDelay |-> 0, retries |-> 0,
     attempts |-> 0, waits |-> <<>>, result |-> <<>>]

\* lines 102-106: retries = 0 and the first fn() is called
CallRetry(maxRetries, initialDelay) ==
    [NoCall EXCEPT !.st = "calling", !.maxRetries = maxRetries,
                   !.initialDelay = initialDelay, !.attempts = 1]

\* line 106: fn() resolved, the call returns its value
RetryResolved(c, value) ==
    [c EXCEPT !.st = "returned", !.result = value]

\* lines 107-115: fn() rejected with an error carrying message
RetryRejected(c, message) ==
    IF RetriesExhausted(c) \/ ~ShouldRetry(message)
    THEN [c EXCEPT !.st = "threw", !.result = message]
    ELSE [c EXCEPT !.st = "waiting", !.retries = @ + 1,
                   !.waits = Append(@, Delay(c.initialDelay, c.retries + 1))]

\* lines 115, 104-106: the timer fired, fn() is called again
RetryResumed(c) == [c EXCEPT !.st = "calling", !.attempts = @ + 1]

(************************** conversation store *****************************)
UserTurn(text) == <<"User: ">> \o text
AssistantTurn(text) == <<"CV Assistant: ">> \o text

\* JSON.stringify of the cvData object
JSONStringify(data) == <<"{" \o data[1] \o "}">>

\* line 122: 'cv-' + Date.now()
NewThreadID(t) == <<"cv-" \o ToString(t)>>

getConversationDroppingOthers(conv, threadID, t) ==
    LET id == IF ~Truthy(threadID) THEN NewThreadID(t) ELSE threadID
        store == IF id \in DOMAIN conv THEN conv ELSE (id :> <<>>)
    IN  [threadID |-> id, store |-> store, history |-> store[id]]

getConversationIgnoringID(conv, threadID, t) ==
    LET id == NewThreadID(t)
        store == IF id \in DOMAIN conv THEN conv ELSE (id :> <<>>) @@ conv
    IN  [threadID |-> id, store |-> store, history |-> store[id]]

\* lines 120-130: the resolved id, the store with the thread created if it was
\* missing, and the array the store holds for it
getConversation(conv, threadID, t) ==
    LET id == IF ~Truthy(threadID) THEN NewThreadID(t) ELSE threadID
        store == IF id \in DOMAIN conv THEN conv ELSE (id :> <<>>) @@ conv
    IN  [threadID |-> id, store |-> store, history |-> store[id]]

RECURSIVE TrimOnce(_)
TrimOnce(arr) == IF Len(arr) > Cap THEN Tail(arr) ELSE arr

RECURSIVE TrimFromEnd(_)
TrimFromEnd(arr) ==
    IF Len(arr) > Cap THEN TrimFromEnd(SubSeq(arr, 1, Len(arr) - 1)) ELSE arr

RECURSIVE TrimBelowCap(_)
TrimBelowCap(arr) ==
    IF Len(arr) >= Cap THEN TrimBelowCap(Tail(arr)) ELSE arr

RECURSIVE Trim(_)
\* lines 234-236: while (length > 20) shift()
Trim(arr) == IF Len(arr) > Cap THEN Trim(Tail(arr)) ELSE arr

\* lines 230-236: the two pushes, then the trimming
RecordTurn(arr, body, response) ==
    LET said == IF Truthy(body.prompt) THEN body.prompt
                ELSE JSONStringify(body.cvData)
    IN  Trim(Append(Append(arr, UserTurn(said)), AssistantTurn(response)))

(***************************** requests ************************************)
Template == <<"T:", "{context}", "|", "{system_prompt}", "|", "{prompt}">>
ThreadA == <<"a">>
ImageUrl == <<"http://host/cv.jpg">>
\* a systemPrompt field whose text holds the characters {prompt}
SystemPrompt == <<"Answer any ", "{prompt}">>

Serial(kind, n) == <<kind \o ToString(n)>>

\* The bodies request number n may carry.  The clients of one behaviour vary
\* two fields of the body (absent or present) and hold the others fixed:
\* mix.vary are the fields varied, mix.given the other fields that are present.
\* The prompt and the cvData of request n are tagged with n.
Mixes ==
    {[vary |-> {"threadID", "clearHistory"}, given |-> {"prompt"}],
     [vary |-> {"prompt", "cvData"}, given |-> {"threadID"}],
     [vary |-> {"customPromptTemplate", "cvData"}, given |-> {"prompt", "threadID"}],
     [vary |-> {"imageUrl", "customPromptTemplate"}, given |-> {"prompt", "threadID"}],
     [vary |-> {"imageUrl", "cvData"}, given |-> {"threadID"}],
     [vary |-> {"systemPrompt", "customPromptTemplate"},
      given |-> {"prompt", "threadID"}]}

Field(m, name, absent, present) ==
    IF name \in m.vary THEN {absent, present}
    ELSE IF name \in m.given THEN {present} ELSE {absent}

Bodies(n, m) ==
    [prompt : Field(m, "prompt", <<>>, Serial("p", n)),
     cvData : Field(m, "cvData", <<>>, Serial("cv", n)),
     threadID : Field(m, "threadID", <<>>, ThreadA),
     imageUrl : Field(m, "imageUrl", <<>>, ImageUrl),
     customPromptTemplate : Field(m, "customPromptTemplate", <<>>, Template),
     systemPrompt : Field(m, "systemPrompt", <<>>, SystemPrompt),
     clearHistory : Field(m, "clearHistory", FALSE, TRUE)]

NoReq ==
    [prompt |-> <<>>, cvData |-> <<>>, threadID |-> <<>>, imageUrl |-> <<>>,
     customPromptTemplate |-> <<>>, systemPrompt |-> <<>>, clearHistory |-> FALSE]

\* line 152: systemPrompt = DEFAULT_SYSTEM_PROMPT when the field is undefined
SystemPromptOf(body) ==
    IF Truthy(body.systemPrompt) THEN body.systemPrompt ELSE DEFAULT_SYSTEM_PROMPT

\* the errors the model call can fail with, by message
\* (the last one is an error that has no message)
Messages ==
    {<<"503", " Service Unavailable">>, <<"The model is ", "overloaded">>,
     <<"400", " Bad Request">>, <<>>}

BlockedMessage == <<"Response was blocked">>
DownloadMessage == <<"Failed to download image: ", "timeout">>
EncodeMessage == <<"Failed to process image: ", "ENOENT">>
ImagePart == <<"inlineData:image/jpeg;base64">>

\* history (line 190) is the array the store held for the thread.  It is kept
\* here when clearHistory has put a new array in the store (line 193), so that
\* it no longer changes; otherwise it is the store's own array.
NoLocal ==
    [id |-> 0, conversationId |-> <<>>, history |-> <<>>, context |-> <<>>,
     payload |-> <<>>, imageData |-> FALSE, fetched |-> FALSE, fresh |-> FALSE]

NoOut ==
    [id |-> 0, req |-> NoReq, status |-> 0, success |-> FALSE, error |-> <<>>,
     message |-> <<>>, response |-> <<>>, threadID |-> <<>>,
     payload |-> <<>>, attempts |-> 0, fetched |-> FALSE, fresh |-> FALSE]

\* what res.json sends (status, success, error, message, response, threadID),
\* with the request it answers and what the handler did for it
Response(body, loc, c, status, success, error, message, response, threadID) ==
    [id |-> loc.id, req |-> body, status |-> status, success |-> success,
     error |-> error, message |-> message, response |-> response,
     threadID |-> threadID, payload |-> loc.payload, attempts |-> c.attempts,
     fetched |-> loc.fetched, fresh |-> loc.fresh]

(************************ /api/generate-cv handler *************************)
InvalidUnlessImage(body) ==
    ~Truthy(body.prompt) /\ ~Truthy(body.cvData) /\ ~Truthy(body.imageUrl)

\* line 156: !prompt && !cvData
Invalid(body) == ~Truthy(body.prompt) /\ ~Truthy(body.cvData)

\* lines 209-211
UserInput(body) ==
    IF Truthy(body.cvData)
    THEN <<"Please format and improve this CV/resume data:\n">>
         \o JSONStringify(body.cvData) \o <<"\n">> \o body.prompt
    ELSE body.prompt

\* lines 213-220
FullPrompt(body, context) ==
    IF Truthy(body.customPromptTemplate)
    THEN Replace(Replace(Replace(body.customPromptTemplate,
                                 "{context}", context),
                         "{system_prompt}", SystemPromptOf(body)),
                 "{prompt}", UserInput(body))
    ELSE SystemPromptOf(body) \o <<"\n">> \o context \o <<"\nUser: ">>
         \o UserInput(body) \o <<"\nResponse:">>

ImagePayloadTemplated(body) ==
    IF Truthy(body.customPromptTemplate) THEN <<FullPrompt(body, <<>>)>>
    ELSE <<SystemPromptOf(body), ImagePart,
           IF Truthy(body.prompt) THEN body.prompt
           ELSE <<"Parse this CV/resume image">>>>

\* line 203: the three parts passed to generateContent with an image
ImagePayload(body) ==
    <<SystemPromptOf(body), ImagePart,
      IF Truthy(body.prompt) THEN body.prompt
      ELSE <<"Parse this CV/resume image">>>>

ResolveThreadPushingUser(conv, body, t) ==
    LET g == getConversation(conv, body.threadID, t)
        id == g.threadID
        store == IF body.clearHistory THEN [g.store EXCEPT ![id] = <<>>]
                 ELSE g.store
    IN  [threadID |-> id,
         store |-> [store EXCEPT ![id] = Append(@, UserTurn(body.prompt))],
         history |-> g.history, context |-> Join(g.history, "\n")]

ResolveThreadNoClear(conv, body, t) ==
    LET g == getConversation(conv, body.threadID, t)
    IN  [threadID |-> g.threadID, store |-> g.store,
         history |-> g.history, context |-> Join(g.history, "\n")]

\* lines 190-196: getConversation, the clearHistory reset of the store's
\* entry, and the context, joined from the array getConversation returned
ResolveThread(conv, body, t) ==
    LET g == getConversation(conv, body.threadID, t)
        id == g.threadID
        store == IF body.clearHistory THEN [g.store EXCEPT ![id] = <<>>]
                 ELSE g.store
    IN  [threadID |-> id, store |-> store,
         history |-> g.history, context |-> Join(g.history, "\n")]

\* The values Date.now() may return at line 122: the value it returned last,
\* or a later one.  Only whether two values are equal matters, so the later
\* one is now + 1, and it is taken only once some thread is named after now.
ClockReads(conv, body) ==
    IF ~Truthy(body.threadID) /\ NewThreadID(now) \in DOMAIN conv
    THEN {now, now + 1} ELSE {now}

\* res.json: the response goes out and the handler instance ends
Respond(r, o) ==
    /\ out' = o
    /\ pc' = [pc EXCEPT ![r] = "idle"]
    /\ req' = [req EXCEPT ![r] = NoReq]
    /\ local' = [local EXCEPT ![r] = NoLocal]
    /\ retry' = [retry EXCEPT ![r] = NoCall]

ImageFailedUncaught(body, loc) ==
    Response(body, loc, NoCall, 500, FALSE, <<"Generation failed">>,
             DownloadMessage, <<>>, <<>>)

\* lines 175-180: the response to a failed download
ImageFailed(body, loc) ==
    Response(body, loc, NoCall, 400, FALSE,
             <<"Image processing failed: ">> \o DownloadMessage, <<>>, <<>>, <<>>)

\* lines 251-258: the catch block's response
Failed(r, c, message) ==
    Respond(r, Response(req[r], local[r], c, 500, FALSE,
                        <<"Generation failed">>, message, <<>>, <<>>))

\* lines 184-225, up to the next await
Compose(r, body, loc) ==
    \E t \in ClockReads(conversations, body) :
      LET g == ResolveThread(conversations, body, t)
          id == g.threadID
          fresh == id \notin DOMAIN conversations
          loc2 == [loc EXCEPT !.conversationId = id, !.context = g.context,
                              !.history = IF body.clearHistory THEN g.history
                                          ELSE <<>>,
                              !.fresh = fresh]
      IN  /\ now' = t
          /\ conversations' = g.store
          /\ appended' = [k \in DOMAIN g.store |->
                            IF k = id /\ (fresh \/ body.clearHistory) THEN <<>>
                            ELSE appended[k]]
          /\ req' = [req EXCEPT ![r] = body]
          /\ out' = NoOut
          /\ IF loc.imageData
             THEN /\ pc' = [pc EXCEPT ![r] = "fileToGenerativePart"]
                  /\ local' = [local EXCEPT ![r] = loc2]
                  /\ UNCHANGED retry
             ELSE /\ pc' = [pc EXCEPT ![r] = "generate"]
                  /\ local' = [local EXCEPT ![r] =
                        [loc2 EXCEPT !.payload = <<FullPrompt(body, g.context)>>]]
                  /\ retry' = [retry EXCEPT ![r] =
                        CallRetry(DefaultMaxRetries, DefaultInitialDelay)]

\* lines 142-181: a request arrives and the handler runs to its first await
Receive(r) ==
    /\ budget > 0
    /\ r = MaxRequests - budget + 1
    /\ budget' = budget - 1
    /\ nreq' = nreq + 1
    /\ UNCHANGED <<mix, trace>>
    /\ \E body \in Bodies(nreq + 1, mix) :
         LET loc == [NoLocal EXCEPT !.id = nreq + 1] IN
         IF Invalid(body)
         THEN /\ Respond(r, Response(body, loc, NoCall, 400, FALSE,
                                     <<"Either prompt or cvData is required">>,
                                     <<>>, <<>>, <<>>))
              /\ UNCHANGED <<conversations, appended, now>>
         ELSE IF Truthy(body.imageUrl)
         THEN /\ pc' = [pc EXCEPT ![r] = "downloadImage"]
              /\ req' = [req EXCEPT ![r] = body]
              /\ local' = [local EXCEPT ![r] = [loc EXCEPT !.fetched = TRUE]]
              /\ out' = NoOut
              /\ UNCHANGED <<conversations, appended, now, retry>>
         ELSE Compose(r, body, loc)

\* line 174: downloadImage resolved
DownloadResolved(r) ==
    /\ pc[r] = "downloadImage"
    /\ Compose(r, req[r], [local[r] EXCEPT !.imageData = TRUE])
    /\ UNCHANGED <<nreq, budget, mix, trace>>

\* lines 175-180: downloadImage rejected
DownloadRejected(r) ==
    /\ pc[r] = "downloadImage"
    /\ Respond(r, ImageFailed(req[r], local[r]))
    /\ UNCHANGED <<conversations, appended, now, nreq, budget, mix, trace>>

\* lines 201-204: fileToGenerativePart resolved, the model is called
EncodeResolved(r) ==
    /\ pc[r] = "fileToGenerativePart"
    /\ pc' = [pc EXCEPT ![r] = "generate"]
    /\ local' = [local EXCEPT ![r].payload = ImagePayload(req[r])]
    /\ retry' = [retry EXCEPT ![r] =
                   CallRetry(DefaultMaxRetries, DefaultInitialDelay)]
    /\ out' = NoOut
    /\ UNCHANGED <<conversations, appended, now, nreq, budget, req, mix, trace>>

\* lines 201 and 251-258: fileToGenerativePart rejected
EncodeRejected(r) ==
    /\ pc[r] = "fileToGenerativePart"
    /\ Failed(r, NoCall, EncodeMessage)
    /\ UNCHANGED <<conversations, appended, now, nreq, budget, mix, trace>>

\* lines 106, 227-249: generateContent resolved, the turns are recorded
GenerateResolved(r) ==
    /\ pc[r] = "generate" /\ retry[r].st = "calling"
    /\ LET c == RetryResolved(retry[r], Serial("r", local[r].id))
           id == local[r].conversationId
           arr == RecordTurn(conversations[id], req[r], c.result)
       IN  /\ conversations' = [conversations EXCEPT ![id] = arr]
           /\ appended' = [appended EXCEPT ![id] =
                             @ \o SubSeq(arr, Len(arr) - 1, Len(arr))]
           /\ Respond(r, Response(req[r], local[r], c, 200, TRUE, <<>>, <<>>,
                                  c.result, id))
    /\ UNCHANGED <<now, nreq, budget, mix, trace>>

\* lines 227 and 251-258: generateContent resolved, response.text() throws
GenerateBlocked(r) ==
    /\ pc[r] = "generate" /\ retry[r].st = "calling"
    /\ Failed(r, RetryResolved(retry[r], <<>>), BlockedMessage)
    /\ UNCHANGED <<conversations, appended, now, nreq, budget, mix, trace>>

\* lines 107-115 and 251-258: generateContent rejected
GenerateRejected(r) ==
    /\ pc[r] = "generate" /\ retry[r].st = "calling"
    /\ \E message \in Messages :
         LET c == RetryRejected(retry[r], message) IN
         IF c.st = "waiting"
         THEN /\ retry' = [retry EXCEPT ![r] = c]
              /\ out' = NoOut
              /\ UNCHANGED <<pc, req, local>>
         ELSE Failed(r, c, c.result)
    /\ UNCHANGED <<conversations, appended, now, nreq, budget, mix, trace>>

\* line 115: the backoff timer fired
BackoffElapsed(r) ==
    /\ pc[r] = "generate" /\ retry[r].st = "waiting"
    /\ retry' = [retry EXCEPT ![r] = RetryResumed(retry[r])]
    /\ out' = NoOut
    /\ UNCHANGED <<conversations, appended, now, nreq, budget, pc, req, local,
                   mix, trace>>

(******************* the retry function called directly ********************)
\* One caller runs retryWithExponentialBackoff(fn, maxRetries, initialDelay)
\* on its own, with an fn that logs each of its outcomes in trace.
Harness == 1
InitialDelays == {DefaultInitialDelay, 100}
Ok == <<"ok">>
Value == <<"value">>

DirectCall ==
    /\ pc[Harness] = "idle"
    /\ \E m \in 0..MaxRetriesBound, d \in InitialDelays :
         retry' = [retry EXCEPT ![Harness] = CallRetry(m, d)]
    /\ pc' = [pc EXCEPT ![Harness] = "direct"]
    /\ UNCHANGED <<conversations, appended, now, nreq, budget, req, local, out,
                   mix, trace>>

DirectResolved ==
    /\ pc[Harness] = "direct" /\ retry[Harness].st = "calling"
    /\ retry' = [retry EXCEPT ![Harness] = RetryResolved(@, Value)]
    /\ trace' = Append(trace, Ok)
    /\ UNCHANGED <<conversations, appended, now, nreq, budget, pc, req, local,
                   out, mix>>

DirectRejected ==
    /\ pc[Harness] = "direct" /\ retry[Harness].st = "calling"
    /\ \E message \in Messages :
         /\ retry' = [retry EXCEPT ![Harness] = RetryRejected(@, message)]
         /\ trace' = Append(trace, message)
    /\ UNCHANGED <<conversations, appended, now, nreq, budget, pc, req, local,
                   out, mix>>

DirectElapsed ==
    /\ pc[Harness] = "direct" /\ retry[Harness].st = "waiting"
    /\ retry' = [retry EXCEPT ![Harness] = RetryResumed(@)]
    /\ UNCHANGED <<conversations, appended, now, nreq, budget, pc, req, local,
                   out, mix, trace>>

(**************** /api/format-cv and /api/improve-cv handlers **************)
\* line 264: { cvData, style = "professional" }
FormatBodies(n) ==
    [cvData : {<<>>, Serial("cv", n)}, style : {<<>>}]

\* line 306: { cvSection, currentContent, jobTitle, industry }
ImproveBodies(n) ==
    [cvSection : {<<"summary">>}, currentContent : {<<>>, Serial("c", n)},
     jobTitle : {<<>>}, industry : {<<>>}]

\* lines 280 and 282
FormatPrompt(body) ==
    DEFAULT_SYSTEM_PROMPT \o <<"\n\nUser: ", "I need to format a CV/resume in a ">>
    \o (IF Truthy(body.style) THEN body.style ELSE <<"professional">>)
    \o <<" style. Here's the data:\n">> \o JSONStringify(body.cvData)
    \o <<"\n\nPlease provide formatting suggestions", "\nResponse:">>

\* lines 325-332
ImprovePrompt(body) ==
    DEFAULT_SYSTEM_PROMPT \o <<"\n\nUser: ", "I need to improve the \"">>
    \o body.cvSection \o <<"\" section of my CV/resume.\nCurrent content: \"">>
    \o body.currentContent \o <<"\"\n">>
    \o (IF Truthy(body.jobTitle) THEN <<"Target job title: ">> \o body.jobTitle
        ELSE <<>>)
    \o <<"\n">>
    \o (IF Truthy(body.industry) THEN <<"Industry: ">> \o body.industry
        ELSE <<>>)
    \o <<"\n\nPlease provide an improved version", "\nResponse:">>

\* lines 295-300 and 346-351: the error field of the catch block's response
FailureOf(route) ==
    IF route = "format-cv" THEN <<"Formatting failed">>
    ELSE <<"Improvement failed">>

\* a request arrives at a handler that keeps no history and runs to its
\* model call
Admit(r, route, body, invalid, error, prompt) ==
    /\ budget > 0
    /\ r = MaxRequests - budget + 1
    /\ budget' = budget - 1
    /\ nreq' = nreq + 1
    /\ LET loc == [NoLocal EXCEPT !.id = nreq + 1] IN
       IF invalid
       THEN Respond(r, Response(body, loc, NoCall, 400, FALSE, error,
                                <<>>, <<>>, <<>>))
       ELSE /\ pc' = [pc EXCEPT ![r] = route]
            /\ req' = [req EXCEPT ![r] = body]
            /\ local' = [local EXCEPT ![r] = [loc EXCEPT !.payload = <<prompt>>]]
            /\ retry' = [retry EXCEPT ![r] =
                           CallRetry(DefaultMaxRetries, DefaultInitialDelay)]
            /\ out' = NoOut
    /\ UNCHANGED <<conversations, appended, now, mix, trace>>

\* lines 262-283
FormatReceive(r) ==
    \E body \in FormatBodies(nreq + 1) :
        Admit(r, "format-cv", body, ~Truthy(body.cvData),
              <<"CV data is required">>, FormatPrompt(body))

\* lines 304-333
ImproveReceive(r) ==
    \E body \in ImproveBodies(nreq + 1) :
        Admit(r, "improve-cv", body,
              ~Truthy(body.cvSection) \/ ~Truthy(body.currentContent),
              <<"CV section and current content are required">>,
              ImprovePrompt(body))

Routes == {"format-cv", "improve-cv"}

AdviceResolvedRecording(r) ==
    /\ pc[r] \in Routes /\ retry[r].st = "calling"
    /\ LET c == RetryResolved(retry[r], Serial("r", local[r].id))
           g == getConversation(conversations, <<>>, now)
       IN  /\ Respond(r, Response(req[r], local[r], c, 200, TRUE, <<>>, <<>>,
                                  c.result, <<>>))
           /\ conversations' = g.store
           /\ appended' = [k \in DOMAIN g.store |->
                             IF k \in DOMAIN appended THEN appended[k] ELSE <<>>]
    /\ UNCHANGED <<now, nreq, budget, mix, trace>>

\* lines 285-291 and 335-342: generateContent resolved, the reply is sent
AdviceResolved(r) ==
    /\ pc[r] \in Routes /\ retry[r].st = "calling"
    /\ LET c == RetryResolved(retry[r], Serial("r", local[r].id))
       IN  Respond(r, Response(req[r], local[r], c, 200, TRUE, <<>>, <<>>,
                               c.result, <<>>))
    /\ UNCHANGED <<conversations, appended, now, nreq, budget, mix, trace>>

\* lines 285 and 335, then the catch block: response.text() throws
AdviceBlocked(r) ==
    /\ pc[r] \in Routes /\ retry[r].st = "calling"
    /\ Respond(r, Response(req[r], local[r], RetryResolved(retry[r], <<>>),
                           500, FALSE, FailureOf(pc[r]), BlockedMessage,
                           <<>>, <<>>))
    /\ UNCHANGED <<conversations, appended, now, nreq, budget, mix, trace>>

\* lines 107-115, then the catch block: generateContent rejected
AdviceRejected(r) ==
    /\ pc[r] \in Routes /\ retry[r].st = "calling"
    /\ \E message \in Messages :
         LET c == RetryRejected(retry[r], message) IN
         IF c.st = "waiting"
         THEN /\ retry' = [retry EXCEPT ![r] = c]
              /\ out' = NoOut
              /\ UNCHANGED <<pc, req, local>>
         ELSE Respond(r, Response(req[r], local[r], c, 500, FALSE,
                                  FailureOf(pc[r]), c.result, <<>>, <<>>))
    /\ UNCHANGED <<conversations, appended, now, nreq, budget, mix, trace>>

\* line 115: the backoff timer fired
AdviceElapsed(r) ==
    /\ pc[r] \in Routes /\ retry[r].st = "waiting"
    /\ retry' = [retry EXCEPT ![r] = RetryResumed(retry[r])]
    /\ out' = NoOut
    /\ UNCHANGED <<conversations, appended, now, nreq, budget, pc, req, local,
                   mix, trace>>

(**************************** specifications *******************************)
Idle ==
    /\ now = 0
    /\ pc = [r \in Slots |-> "idle"]
    /\ req = [r \in Slots |-> NoReq]
    /\ local = [r \in Slots |-> NoLocal]
    /\ retry = [r \in Slots |-> NoCall]
    /\ out = NoOut
    /\ trace = <<>>

\* line 50: the store is empty when the server starts
Init ==
    /\ Idle
    /\ conversations = <<>>
    /\ appended = <<>>
    /\ nreq = 0
    /\ budget = MaxRequests
    /\ mix \in Mixes

Next ==
    \/ \E r \in Slots : Receive(r)
    \/ \E r \in Slots : DownloadResolved(r)
    \/ \E r \in Slots : DownloadRejected(r)
    \/ \E r \in Slots : EncodeResolved(r)
    \/ \E r \in Slots : EncodeRejected(r)
    \/ \E r \in Slots : GenerateResolved(r)
    \/ \E r \in Slots : GenerateBlocked(r)
    \/ \E r \in Slots : GenerateRejected(r)
    \/ \E r \in Slots : BackoffElapsed(r)

Spec == Init /\ [][Next]_vars

(* A server that has already taken Cap / 2 requests, each a prompt on thread *)
(* "a" that succeeded: the thread holds their Cap turns.                     *)
PreloadBody(i) ==
    [NoReq EXCEPT !.prompt = Serial("p", i), !.threadID = ThreadA]

RECURSIVE Preload(_)
Preload(n) ==
    IF n = 0 THEN <<>>
    ELSE RecordTurn(Preload(n - 1), PreloadBody(n), Serial("r", n))

InitCap ==
    /\ Idle
    /\ conversations = (ThreadA :> Preload(Cap \div 2))
    /\ appended = conversations
    /\ nreq = Cap \div 2
    /\ budget = MaxRequests
    /\ mix = [vary |-> {"threadID", "clearHistory"}, given |-> {"prompt"}]

NextCap ==
    \/ \E r \in Slots : Receive(r)
    \/ \E r \in Slots : GenerateResolved(r)
    \/ \E r \in Slots : GenerateBlocked(r)
    \/ \E r \in Slots : GenerateRejected(r)
    \/ \E r \in Slots : BackoffElapsed(r)

SpecCap == InitCap /\ [][NextCap]_vars

InitRetry ==
    /\ Idle
    /\ conversations = <<>>
    /\ appended = <<>>
    /\ nreq = 0
    /\ budget = 0
    /\ mix = [vary |-> {}, given |-> {}]

NextRetry == DirectCall \/ DirectResolved \/ DirectRejected \/ DirectElapsed

SpecRetry == InitRetry /\ [][NextRetry]_vars

(* The three handlers together: requests to /api/generate-cv with a prompt,  *)
(* on thread "a" or on a new thread, among requests to the other two routes. *)
InitAll ==
    /\ Idle
    /\ conversations = <<>>
    /\ appended = <<>>
    /\ nreq = 0
    /\ budget = MaxRequests
    /\ mix = [vary |-> {"threadID"}, given |-> {"prompt"}]

NextAll ==
    \/ \E r \in Slots : Receive(r)
    \/ \E r \in Slots : GenerateResolved(r)
    \/ \E r \in Slots : GenerateBlocked(r)
    \/ \E r \in Slots : GenerateRejected(r)
    \/ \E r \in Slots : BackoffElapsed(r)
    \/ \E r \in Slots : FormatReceive(r)
    \/ \E r \in Slots : ImproveReceive(r)
    \/ \E r \in Slots : AdviceResolved(r)
    \/ \E r \in Slots : AdviceBlocked(r)
    \/ \E r \in Slots : AdviceRejected(r)
    \/ \E r \in Slots : AdviceElapsed(r)

SpecAll == InitAll /\ [][NextAll]_vars

(******************************* claims ************************************)
Min(a, b) == IF a < b THEN a ELSE b
LastN(s, n) == SubSeq(s, Len(s) - n + 1, Len(s))
IsTransient(message) ==
    Includes(message, "503") \/ Includes(message, "overloaded")
AllTransient(t, n) == \A i \in 1..n : t[i] # Ok /\ IsTransient(t[i])
Neither(body) == body.prompt = <<>> /\ body.cvData = <<>>
Said(body) ==
    IF Truthy(body.prompt) THEN body.prompt ELSE JSONStringify(body.cvData)
\* some thread holds a turn of request n, whose body is body
Recorded(n, body) ==
    \E id \in DOMAIN conversations : \E i \in 1..Len(conversations[id]) :
        conversations[id][i] \in
            {UserTurn(Said(body)), AssistantTurn(Serial("r", n))}

\* C1: between handler steps every thread of the store holds at most Cap (20)
\* turns, whatever requests were made and however they interleaved.
C1_LengthAtMostCap ==
    \A id \in DOMAIN conversations : Len(conversations[id]) <= Cap

\* a thread is full and turns have been evicted from it
C1_Witness ==
    \E id \in DOMAIN conversations :
        Len(conversations[id]) = Cap /\ Len(appended[id]) > Cap

\* the thread holds the most recent min(N, Cap) of the N turns appended to it
\* since it was last reset, in the order they were appended
Retained(conv, app) ==
    \A id \in DOMAIN conv :
        conv[id] = LastN(app[id], Min(Len(app[id]), Cap))

\* this step appends to a thread that holds exactly Cap turns, none evicted
\* yet: it makes the appends number Cap + 1 and following
EvictsFirst(id) ==
    /\ Len(appended[id]) = Cap
    /\ Len(appended'[id]) > Cap
    /\ SubSeq(appended'[id], 1, Cap) = appended[id]

\* C2 as stated: the thread holds the most recent min(N, Cap) turns in order,
\* and the 21st append evicts turn #1, so that turn #2 becomes the oldest.
C2_Original ==
    [][/\ Retained(conversations', appended')
       /\ \A id \in DOMAIN conversations :
            EvictsFirst(id) => conversations'[id][1] = appended[id][2]]_vars

\* C2 amended: the thread holds the most recent min(N, Cap) turns in order;
\* turns are appended two at a time, so the 21st and 22nd appends evict turns
\* #1 and #2 together and turn #3 becomes the oldest.
C2_RetainsMostRecent ==
    [][/\ Retained(conversations', appended')
       /\ \A id \in DOMAIN conversations :
            EvictsFirst(id) =>
                /\ Len(appended'[id]) = Cap + 2
                /\ conversations'[id][1] = appended[id][3]]_vars

\* 22 turns were appended to a thread and the third of them is its oldest
C2_Witness ==
    \E id \in DOMAIN conversations :
        /\ Len(appended[id]) = Cap + 2
        /\ Len(conversations[id]) = Cap
        /\ conversations[id][1] = appended[id][3]
        /\ conversations[id][1] # appended[id][1]

\* C3: a request with clearHistory = true sends the model a prompt composed
\* with an empty context: no turn the thread held before is in it.
C3_ClearedContextEmpty ==
    \A r \in Slots :
        (pc[r] = "generate" /\ req[r].clearHistory /\ ~local[r].imageData) =>
            /\ local[r].context = <<>>
            /\ local[r].payload = <<FullPrompt(req[r], <<>>)>>

\* C4: an operation that fails with a transient error maxRetries times and
\* then succeeds: the call returns its value after maxRetries + 1 attempts and
\* the i-th wait is initialDelay * 1.5^i (750 and 1125 ms with the defaults).
C4_TransientThenSuccess ==
    LET c == retry[Harness]
        m == c.maxRetries
    IN  (Len(trace) = m + 1 /\ AllTransient(trace, m) /\ trace[m + 1] = Ok) =>
            /\ c.st = "returned" /\ c.result = Value
            /\ c.attempts = m + 1
            /\ Len(c.waits) = m
            /\ \A i \in 1..m :
                 c.waits[i][1] * Pow(2, i) = c.initialDelay * Pow(3, i) * c.waits[i][2]
            /\ (m = 2 /\ c.initialDelay = 500) =>
                 /\ c.waits[1][1] = 750 * c.waits[1][2]
                 /\ c.waits[2][1] = 1125 * c.waits[2][2]

\* the default call returned after two transient failures
C4_Witness ==
    LET c == retry[Harness] IN
    /\ c.st = "returned" /\ c.maxRetries = 2 /\ c.initialDelay = 500
    /\ Len(trace) = 3 /\ AllTransient(trace, 2) /\ trace[3] = Ok
    /\ Len(c.waits) = 2

\* C5: an attempt that fails with a non-transient error ends the call: that
\* failure is thrown, with no wait after it and no further attempt; when it
\* is the first attempt no retry was made.
C5_NonTransientPropagates ==
    LET c == retry[Harness] IN
    \A i \in 1..Len(trace) :
        (trace[i] # Ok /\ ~IsTransient(trace[i])) =>
            /\ i = Len(trace)
            /\ c.st = "threw" /\ c.result = trace[i]
            /\ c.attempts = i
            /\ Len(c.waits) = i - 1
            /\ (i = 1 => c.retries = 0 /\ c.waits = <<>>)

\* a first attempt failed non-transiently while retries were allowed
C5_Witness ==
    LET c == retry[Harness] IN
    /\ c.maxRetries >= 1 /\ c.st = "threw"
    /\ Len(trace) = 1 /\ trace[1] # Ok /\ ~IsTransient(trace[1])

\* C6: the call makes at most maxRetries + 1 attempts and has ended when the
\* last of them has; if all of them failed with transient errors it throws
\* the failure of the last one.
C6_AttemptsCapped ==
    LET c == retry[Harness]
        m == c.maxRetries
    IN  /\ c.attempts <= m + 1
        /\ Len(trace) <= m + 1
        /\ Len(trace) = m + 1 => c.st \in {"returned", "threw"}
        /\ (Len(trace) = m + 1 /\ AllTransient(trace, m + 1)) =>
              c.st = "threw" /\ c.result = trace[m + 1]

\* every one of the maxRetries + 1 >= 2 attempts failed with a transient error
C6_Witness ==
    LET c == retry[Harness] IN
    /\ c.maxRetries >= 1 /\ c.st = "threw"
    /\ Len(trace) = c.maxRetries + 1 /\ AllTransient(trace, c.maxRetries + 1)

\* C7: a request with neither prompt nor cvData is answered at once with
\* HTTP 400 and success:false; no image is fetched, the model is not called
\* and the store is left as it was (no thread is created).
C7_MissingInputRejected ==
    [][nreq' = nreq + 1 =>
         LET answered == out'.id = nreq'
             handling == {r \in Slots : local'[r].id = nreq'}
         IN  ((answered /\ Neither(out'.req))
               \/ \E r \in handling : Neither(req'[r])) =>
                /\ answered /\ handling = {}
                /\ out'.status = 400 /\ out'.success = FALSE
                /\ out'.error = <<"Either prompt or cvData is required">>
                /\ ~out'.fetched /\ out'.attempts = 0
                /\ conversations' = conversations]_vars

\* such a request was rejected by a server whose store holds a thread
C7_Witness ==
    /\ out.status = 400 /\ Neither(out.req)
    /\ out.error = <<"Either prompt or cvData is required">>
    /\ DOMAIN conversations # {}

\* C8: an image is fetched only for a request with an image URL; if the
\* fetch fails the request is answered with HTTP 400 "Image processing
\* failed", the model was not called for it and no step of it changed the
\* store.
C8_ImageFailureShortCircuits ==
    /\ [](\A r \in Slots :
            /\ local[r].fetched = (pc[r] # "idle" /\ Truthy(req[r].imageUrl))
            /\ pc[r] = "downloadImage" => local[r].fetched /\ retry[r] = NoCall)
    /\ [](out.fetched => Truthy(out.req.imageUrl))
    /\ [][\A r \in Slots :
            /\ (pc[r] = "idle" /\ pc'[r] = "downloadImage") =>
                  conversations' = conversations
            /\ (pc[r] = "downloadImage" /\ pc'[r] # "downloadImage") =>
                  \/ pc'[r] = "fileToGenerativePart" /\ local'[r].imageData
                  \/ /\ pc'[r] = "idle" /\ out'.id = local[r].id
                     /\ out'.status = 400 /\ out'.success = FALSE
                     /\ out'.error = <<"Image processing failed: ">> \o DownloadMessage
                     /\ out'.attempts = 0
                     /\ conversations' = conversations]_vars

\* a request's image could not be fetched and it was answered with 400
C8_Witness ==
    /\ out.status = 400 /\ out.fetched
    /\ out.error = <<"Image processing failed: ">> \o DownloadMessage

\* C9: when the model call fails with an error that is not retried, or with
\* a transient one once the retries are used up, the request is answered
\* with HTTP 500 "Generation failed" and the error's message, and no turn of
\* the request is in any thread.
C9_GenerationFailureRecordsNothing ==
    /\ [](\A r \in Slots : pc[r] # "idle" => ~Recorded(local[r].id, req[r]))
    /\ [](out.status = 500 => ~Recorded(out.id, out.req))
    /\ [][\A r \in Slots :
            (pc[r] = "generate" /\ retry[r].st = "calling" /\ retry'[r] # retry[r]) =>
               \/ out'.id = local[r].id /\ out'.status = 200
               \/ retry'[r].st = "waiting" /\ retry[r].retries < DefaultMaxRetries
               \/ /\ pc'[r] = "idle" /\ out'.id = local[r].id
                  /\ out'.status = 500 /\ out'.success = FALSE
                  /\ out'.error = <<"Generation failed">>
                  /\ out'.message \in Messages \cup {BlockedMessage}
                  /\ IsTransient(out'.message) =>
                        retry[r].retries = DefaultMaxRetries
                  /\ out'.attempts = retry[r].retries + 1
                  /\ conversations' = conversations]_vars

\* a request failed with a transient error after the retries were used up
C9_Witness ==
    /\ out.status = 500 /\ IsTransient(out.message)
    /\ out.attempts = DefaultMaxRetries + 1
    /\ out.error = <<"Generation failed">>

\* C10: a successful request with a prompt and no threadID is answered with
\* a threadID that no thread had before, and the thread stored under it holds
\* exactly the request's User turn and then its Assistant turn.
C10_FreshThreadHoldsTwoTurns ==
    (out.status = 200 /\ out.success /\ ~Truthy(out.req.threadID)
       /\ Truthy(out.req.prompt)) =>
        /\ out.fresh
        /\ out.threadID \in DOMAIN conversations
        /\ conversations[out.threadID] =
              <<UserTurn(out.req.prompt), AssistantTurn(out.response)>>

\* C11: a request that omits threadID is given an identifier that no thread of
\* the store had when it was synthesized, and no two requests that omit
\* threadID hold the same identifier, whatever the clock returned.
C11_SynthesizedIdUnique ==
    /\ \A r \in Slots :
         (pc[r] \in {"fileToGenerativePart", "generate"}
            /\ ~Truthy(req[r].threadID)) => local[r].fresh
    /\ \A r, s \in Slots :
         (r # s /\ pc[r] \in {"fileToGenerativePart", "generate"}
            /\ pc[s] \in {"fileToGenerativePart", "generate"}
            /\ ~Truthy(req[r].threadID) /\ ~Truthy(req[s].threadID)) =>
              local[r].conversationId # local[s].conversationId
    /\ (out.status = 200 /\ ~Truthy(out.req.threadID)) => out.fresh

RECURSIVE Concat(_)
Concat(parts) ==
    IF parts = <<>> THEN <<>> ELSE parts[1] \o Concat(Tail(parts))

\* One pass over the template: the first occurrence of each placeholder is
\* replaced by its value, and the values are not looked into.
SinglePass(template, context, systemPrompt, userInput) ==
    Concat([i \in 1..Len(template) |->
        IF template[i] = "{context}" /\ IndexOf(template, "{context}") = i
        THEN context
        ELSE IF template[i] = "{system_prompt}"
                /\ IndexOf(template, "{system_prompt}") = i
        THEN systemPrompt
        ELSE IF template[i] = "{prompt}" /\ IndexOf(template, "{prompt}") = i
        THEN userInput
        ELSE <<template[i]>>])

ExampleBody ==
    [NoReq EXCEPT !.prompt = <<"C">>, !.systemPrompt = <<"B">>,
                  !.customPromptTemplate =
                      <<"SYS:", "{system_prompt}", "|CTX:", "{context}",
                        "|Q:", "{prompt}">>]

\* C12: with a customPromptTemplate and no image, the prompt sent to the model
\* is the template with {context}, {system_prompt} and {prompt} replaced in
\* one pass by the context, the system prompt and the user input; placeholder
\* text inside a substituted value is not expanded.  The template
\* "SYS:{system_prompt}|CTX:{context}|Q:{prompt}" with "A", "B", "C" gives
\* "SYS:B|CTX:A|Q:C".
C12_TemplateSinglePass ==
    /\ FullPrompt(ExampleBody, <<"A">>) =
          <<"SYS:", "B", "|CTX:", "A", "|Q:", "C">>
    /\ \A r \in Slots :
         (pc[r] = "generate" /\ Truthy(req[r].customPromptTemplate)
            /\ ~local[r].imageData) =>
              local[r].payload =
                 <<SinglePass(req[r].customPromptTemplate, local[r].context,
                              SystemPromptOf(req[r]), UserInput(req[r]))>>

\* the handler instance that takes this step (none when the request is
\* answered by the step that receives it)
Acting(r) == pc'[r] # pc[r] \/ retry'[r] # retry[r]

\* this step is handler r recording the turns of a model call that returned
Records(r) ==
    /\ pc[r] = "generate" /\ retry[r].st = "calling"
    /\ out'.id = local[r].id /\ out'.status = 200

\* C13: a request touches the store (creates, clears or appends to a thread)
\* only after its model call has returned: every step that changes the store
\* is the step of a handler whose model call has just returned.
C13_StoreTouchedOnlyAfterModelCall ==
    [][conversations' # conversations =>
          \E r \in Slots : Acting(r) /\ Records(r)]_vars

UserText(body) ==
    IF body.prompt # <<>> THEN body.prompt ELSE <<"Parse this CV/resume image">>

\* the payload is the three parts of an image-bearing request
ThreeParts(payload, body) ==
    /\ Len(payload) = 3
    /\ payload[1] = SystemPromptOf(body)
    /\ payload[2] = ImagePart
    /\ payload[3] = UserText(body)

\* C14: for a request whose image was fetched, the model is called with the
\* three parts [systemPrompt, image part, user text], with or without a
\* customPromptTemplate; a payload that is not these three parts belongs to
\* a request without an image.
C14_ImagePayloadThreeParts ==
    /\ \A r \in Slots :
         pc[r] = "generate" =>
            (local[r].imageData <=> ThreeParts(local[r].payload, req[r]))
    /\ \A r \in Slots : local[r].imageData => Truthy(req[r].imageUrl)
    /\ (out.attempts > 0 /\ out.fetched) => ThreeParts(out.payload, out.req)

\* the model is being called for a request with an image and a template
C14_Witness ==
    \E r \in Slots :
        /\ pc[r] = "generate" /\ local[r].imageData
        /\ Truthy(req[r].customPromptTemplate)
        /\ Len(local[r].payload) = 3

\* C15: a successful request appends to its thread, next to each other and
\* in this order, a User turn with the prompt (the serialized cvData if there
\* is no prompt) and an Assistant turn with the model's reply, after the
\* turns the thread held; if the request cleared the thread and no turn was
\* appended to the thread since, the thread then holds exactly these two.
C15_SuccessAppendsUserThenAssistant ==
    [][\A r \in Slots :
         (Acting(r) /\ Records(r)) =>
            LET id == local[r].conversationId
                arr == conversations'[id]
                n == Len(arr)
                pair == <<UserTurn(Said(req[r])), AssistantTurn(out'.response)>>
            IN  /\ out'.threadID = id /\ out'.success
                /\ n >= 2
                /\ SubSeq(arr, n - 1, n) = pair
                /\ SubSeq(arr, 1, n - 2) = LastN(conversations[id], n - 2)
                /\ (req[r].clearHistory /\ appended[id] = <<>>) => arr = pair]_vars

\* a request that cleared a thread holding turns succeeded, and the thread
\* holds its two turns
C15_Witness ==
    /\ out.status = 200 /\ out.req.clearHistory /\ ~out.fetched
    /\ out.payload # <<FullPrompt(out.req, <<>>)>>
    /\ conversations[out.threadID] =
          <<UserTurn(Said(out.req)), AssistantTurn(out.response)>>

\* this step belongs to a /api/format-cv or /api/improve-cv request
AdviceStep ==
    \/ \E r \in Slots : Acting(r) /\ (pc[r] \in Routes \/ pc'[r] \in Routes)
    \/ out'.error \in {<<"CV data is required">>,
                       <<"CV section and current content are required">>}

\* C16: no step of a /api/format-cv or /api/improve-cv request changes the
\* store, whether the request succeeds or fails and whatever other requests
\* are in flight: no thread is created, no turn is appended or removed.
C16_AdviceLeavesStoreUnchanged ==
    [][AdviceStep => conversations' = conversations]_vars

\* a /api/improve-cv request succeeded while a /api/generate-cv request, which
\* has created its thread, waits for its model call
C16_Witness ==
    /\ out.status = 200 /\ "cvSection" \in DOMAIN out.req
    /\ DOMAIN conversations # {}
    /\ \E r \in Slots : pc[r] = "generate"

BodyOf(r) == IF pc[r] = "idle" THEN req'[r] ELSE req[r]

\* C18: a request that ends in a failure response leaves every thread that
\* existed before it as it was: the step that answers 400 or 500 changes no
\* thread, no earlier step of the request changed an existing thread, and a
\* thread the request was told to clear, to which nothing was appended since,
\* still holds the turns it held when the request resolved it.
C18_FailureLeavesThreadsUnchanged ==
    [][/\ \A r \in Slots :
            (Acting(r) /\ ~Records(r) /\ ~BodyOf(r).clearHistory) =>
                \A id \in DOMAIN conversations :
                    conversations'[id] = conversations[id]
       /\ out'.status \in {400, 500} =>
            /\ conversations' = conversations
            /\ \A r \in Slots :
                 (Acting(r) /\ pc[r] \in {"fileToGenerativePart", "generate"}
                    /\ req[r].clearHistory
                    /\ appended[local[r].conversationId] = <<>>) =>
                      conversations'[local[r].conversationId] = local[r].history]_vars

\* u and a are the User turn and the Assistant turn of one request
TurnsOfOneRequest(u, a) ==
    \E n \in 1..nreq :
        /\ u \in {UserTurn(Serial("p", n)),
                  UserTurn(JSONStringify(Serial("cv", n)))}
        /\ a = AssistantTurn(Serial("r", n))

\* C19: between handler steps every thread has an even number of turns,
\* User and Assistant turns alternating from a User turn, each User turn
\* followed at once by the Assistant turn of the same request; after an
\* eviction the oldest turn is still a User turn.
C19_TurnsComeInPairs ==
    \A id \in DOMAIN conversations :
        LET arr == conversations[id] IN
        /\ Len(arr) % 2 = 0
        /\ \A k \in 1..(Len(arr) \div 2) :
             /\ arr[2 * k - 1][1] = "User: "
             /\ arr[2 * k][1] = "CV Assistant: "
             /\ TurnsOfOneRequest(arr[2 * k - 1], arr[2 * k])
        /\ arr # <<>> => arr[1][1] = "User: "

\* two requests have each evicted a pair of turns from a full thread
C19_Witness ==
    \E id \in DOMAIN conversations :
        /\ Len(conversations[id]) = Cap
        /\ Len(appended[id]) = Cap + 4
        /\ conversations[id][1][1] = "User: "

\* C20: a request with a threadID changes no thread but the one it names, at
\* any step and whatever other requests are in flight, and a successful one
\* is answered with that threadID.
C20_NamedThreadOnly ==
    [][\A r \in Slots :
         (Acting(r) /\ Truthy(BodyOf(r).threadID)) =>
            LET id == BodyOf(r).threadID IN
            /\ DOMAIN conversations' \subseteq DOMAIN conversations \cup {id}
            /\ \A k \in DOMAIN conversations \ {id} :
                 conversations'[k] = conversations[k]
            /\ (out'.status = 200 /\ out'.id = local[r].id) =>
                 out'.threadID = id]_vars

\* a request naming thread "a" succeeded on a store where another thread
\* holds turns
C20_Witness ==
    /\ out.status = 200 /\ out.req.threadID = ThreadA /\ out.threadID = ThreadA
    /\ conversations[ThreadA] # <<>>
    /\ \E k \in DOMAIN conversations \ {ThreadA} : conversations[k] # <<>>

====
